---- MODULE Spec2Model ----
(***************************************************************************)
(* vkgc::garbage_collector (src/vkgc.hh, src/vkgc.cc): a deferred garbage  *)
(* collector for Vulkan resources.  The registries `resources` and         *)
(* `semaphore_dependencies`, the mutex, and every public operation are     *)
(* modelled; the device (timeline semaphore values, vkDeviceWaitIdle,      *)
(* vkDestroySemaphore) is the environment.                                 *)
(***************************************************************************)
EXTENDS Integers, Sequences, FiniteSets, Bags, TLC

(***************************************************************************)
(* Identities and bounds                                                   *)
(***************************************************************************)
\* VkSemaphore handles the device knows
Semaphores == {"S", "T"}
\* void* resource identities the caller passes
Resources == {"A", "B"}
\* the resources of the chain test (depend(A, B), depend(B, C)) and its semaphore
ChainResources == {"A", "B", "C"}
ChainSemaphores == {"S"}
\* the semaphore the callers of wait_collect use
WaitSemaphores == {"S"}
\* threads calling the public operations
Threads == {"t1", "t2"}

\* the null void* (trigger::dependent of add_trigger)
nullptr == "nullptr"
\* an empty std::function (dependency_info::cleanup before release)
NoCleanup == 0
\* an empty std::function (trigger::callback of depend(used, timeline, value))
NoCallback == 0
\* no thread owns the mutex
NoThread == "none"
\* the frame of a thread that is in no call, or in a call that runs as one step
NoFrame == [op |-> "none"]
\* largest size_t; dependency_count-- at 0 wraps to it.  It stands for
\* 2^64 - 1: the model checker's integers are 32 bits wide.
SIZE_MAX == 2147483647

\* calls of release, release(VkSemaphore), depend, depend_many and add_trigger
MaxCalls == 2
\* longest used_resources array passed to depend_many
MaxUsed == 1
\* largest timeline semaphore value
MaxValue == 1

Values == 0..MaxValue

VARIABLES
    resources,              \* std::unordered_map<void*, dependency_info>
    semaphore_dependencies, \* std::unordered_map<VkSemaphore, semaphore_info>
    mutex,                  \* owner of std::mutex mutex, or NoThread
    pc,                     \* where each thread is inside wait_collect
    counter,                \* device: current value of each timeline semaphore
    cleanups,               \* history: closures passed to release, runs of each
    callbacks,              \* history: closures passed to add_trigger
    semWaits,               \* history: depend(used, timeline, value) not yet observed reached
    orderEdges,             \* history: depend edges whose user has not been cleaned up
    everDeleted,            \* history: resources whose record was erased
    highest,                \* history: largest target value fired so far, per semaphore
    waits,                  \* history: calls made, and wait_collect calls disturbed
    frame,                  \* each thread's call in progress: operation, arguments, locals
    last                    \* history: what the last step did

vars == <<resources, semaphore_dependencies, mutex, pc, counter, cleanups,
          callbacks, semWaits, orderEdges, everDeleted, highest, waits, frame, last>>

(***************************************************************************)
(* Data types                                                              *)
(***************************************************************************)
\* struct dependency_info, were a new element to hold the first closure
dependency_infoStale == [dependency_count |-> 0, dependents |-> <<>>, cleanup |-> 1]

\* struct dependency_info, default-constructed
dependency_info == [dependency_count |-> 0, dependents |-> <<>>, cleanup |-> NoCleanup]

\* struct semaphore_info, default-constructed
semaphore_info == [triggers |-> EmptyBag, should_destroy |-> FALSE]

\* struct trigger, as aggregate-initialised by depend and add_trigger
trigger(value, dependent, callback) ==
    [value |-> value, dependent |-> dependent, callback |-> callback]

\* unordered_map::operator[]: default-constructs the element when absent
Materialize(map, key, default) ==
    IF key \in DOMAIN map THEN map
    ELSE [k \in DOMAIN map \cup {key} |-> IF k = key THEN default ELSE map[k]]

\* unordered_map::erase
Erase(map, key) == [k \in DOMAIN map \ {key} |-> map[k]]

\* size_t --, were it applied twice
DecrementTwice(n) == IF n = 0 THEN SIZE_MAX - 1 ELSE IF n = 1 THEN SIZE_MAX ELSE n - 2

\* size_t ++ and --
Increment(n) == IF n = SIZE_MAX THEN 0 ELSE n + 1
Decrement(n) == IF n = 0 THEN SIZE_MAX ELSE n - 1

(***************************************************************************)
(* check_delete and the trigger heap                                       *)
(***************************************************************************)
\* The registries while one operation runs under the mutex, with what the
\* operation has done so far:
\*   ran       cleanups invoked, in order, each with the dependency_count
\*             its resource had when it was invoked
\*   fired     triggers popped, in order, each with the smallest target value
\*             its heap held when it was popped (floor) and the largest target
\*             value fired on its semaphore before it (after; -1 when none)
\*   highest   the largest target value fired so far, per semaphore
\*   destroyed semaphores handed to vkDestroySemaphore
\*   ub        an erased element of `resources` was used
Running(res, sems) ==
    [resources |-> res, sems |-> sems, ran |-> <<>>, fired |-> <<>>,
     destroyed |-> {}, ub |-> FALSE, highest |-> highest]

\* check_delete's test, were it to let one dependency through
EligibleWithOne(info) == info.dependency_count <= 1 /\ info.cleanup # NoCleanup

\* check_delete's test: dependency_count == 0 && cleanup
Eligible(info) == info.dependency_count = 0 /\ info.cleanup # NoCleanup

\* the decrement, were it left out
DecrementCountForgotten(st, resource) ==
    [st EXCEPT !.resources = Materialize(@, resource, dependency_info)]

\* resources[resource].dependency_count--
DecrementCount(st, resource) ==
    LET m == Materialize(st.resources, resource, dependency_info)
    IN  [st EXCEPT !.resources =
            [m EXCEPT ![resource].dependency_count = Decrement(@)]]

\* check_delete, were it to leave the record in the registry
EraseForgotten(st, resource) == st

\* resources.erase(it), the last statement of check_delete; `it` dangles when
\* a nested call has already erased the element
EraseChecked(st, resource) ==
    [st EXCEPT !.resources = Erase(@, resource),
               !.ub = @ \/ resource \notin DOMAIN st.resources]

RECURSIVE check_delete(_, _)
RECURSIVE Cascade(_, _, _)
RECURSIVE CascadeNoRecheck(_, _, _)

\* the loop of check_delete, were it to lower the counts without checking the
\* dependents again
CascadeNoRecheck(st, dependents, i) ==
    IF i > Len(dependents) THEN st
    ELSE CascadeNoRecheck(DecrementCount(st, dependents[i]), dependents, i + 1)

\* the loop of check_delete over it->second.dependents, from index i
Cascade(st, dependents, i) ==
    IF i > Len(dependents) THEN st
    ELSE Cascade(check_delete(DecrementCount(st, dependents[i]), dependents[i]),
                 dependents, i + 1)

\* garbage_collector::check_delete; every caller has materialized `resource`
check_delete(st, resource) ==
    LET info == st.resources[resource]
    IN  IF Eligible(info)
        THEN LET called == [st EXCEPT !.ran = Append(@,
                               [resource |-> resource, cleanup |-> info.cleanup,
                                dependency_count |-> info.dependency_count])]
             IN  EraseChecked(Cascade(called, info.dependents, 1), resource)
        ELSE st

\* trigger::operator<, were it not inverted (a max-heap)
TriggerLessPlain(a, b) == a.value < b.value

\* trigger::operator<, inverted so that std::priority_queue is a min-heap
TriggerLess(a, b) == b.value < a.value

\* priority_queue::top: an element no other element is greater than under
\* operator<; which of several equal ones is on top is left open
Top(triggers) ==
    {t \in BagToSet(triggers) : \A u \in BagToSet(triggers) : ~TriggerLess(t, u)}

\* the loop test of collect, were it to ignore the semaphore's value
ReadyAlways(top, value) == TRUE

\* the loop test of collect, were it strict
ReadyStrict(top, value) == top.value < value

\* the loop test of collect: triggers.top().value <= value
Ready(top, value) == top.value <= value

\* smallest target value a heap holds
Floor(triggers) ==
    CHOOSE v \in {t.value : t \in BagToSet(triggers)} :
        \A t \in BagToSet(triggers) : v <= t.value

\* priority_queue::pop of the element `top`
Pop(triggers, top) == triggers (-) SetToBag({top})

\* priority_queue::push
Push(triggers, t) == triggers (+) SetToBag({t})

\* the body of collect's while loop, were it to lower the dependent's count
\* without checking the dependent
FireUnchecked(st, sem, top) ==
    LET lowered == IF top.dependent # nullptr
                   THEN DecrementCount(st, top.dependent)
                   ELSE st
    IN  [lowered EXCEPT !.sems[sem].triggers = Pop(@, top)]

\* the body of collect's while loop for the trigger on top
Fire(st, sem, top) ==
    LET logged == [st EXCEPT !.fired = Append(@,
                      [sem |-> sem, value |-> top.value, callback |-> top.callback,
                       dependent |-> top.dependent,
                       floor |-> Floor(st.sems[sem].triggers),
                       after |-> st.highest[sem]]),
                      !.highest[sem] = IF top.value > @ THEN top.value ELSE @]
        freed == IF top.dependent # nullptr
                 THEN check_delete(DecrementCount(logged, top.dependent), top.dependent)
                 ELSE logged
    IN  [freed EXCEPT !.sems[sem].triggers = Pop(@, top)]

\* collect's while loop, were it an if: at most one trigger is popped
DrainOnce(st, sem, value) ==
    LET tops == {t \in Top(st.sems[sem].triggers) : Ready(t, value)}
    IN  IF tops = {} THEN {st} ELSE {Fire(st, sem, t) : t \in tops}

RECURSIVE Drain(_, _, _)
\* collect's while loop on one semaphore: every state it can end in
Drain(st, sem, value) ==
    LET tops == {t \in Top(st.sems[sem].triggers) : Ready(t, value)}
    IN  IF tops = {} THEN {st}
        ELSE UNION {Drain(Fire(st, sem, t), sem, value) : t \in tops}

\* collect's test after the loop, were it to ignore should_destroy
ShouldDestroyDrained(info) == info.triggers = EmptyBag

\* collect's test after the loop: triggers.empty() && it->second.should_destroy
ShouldDestroy(info) == info.triggers = EmptyBag /\ info.should_destroy

\* collect, were it to keep the record of a drained and released semaphore
DestroyForgotten(st, sem) == st

\* vkDestroySemaphore and semaphore_dependencies.erase(it)
Destroy(st, sem) ==
    IF ShouldDestroy(st.sems[sem])
    THEN [st EXCEPT !.sems = Erase(@, sem), !.destroyed = @ \cup {sem}]
    ELSE st

\* one iteration of collect's for loop, on semaphore `sem` whose value the
\* device reports as `value`
Visit(st, sem, value) == {Destroy(d, sem) : d \in Drain(st, sem, value)}

RECURSIVE Pass(_, _, _)
\* collect's for loop over the semaphores `todo`, in any iteration order
Pass(st, todo, values) ==
    IF todo = {} THEN {st}
    ELSE UNION {UNION {Pass(v, todo \ {sem}, values) : v \in Visit(st, sem, values[sem])}
                : sem \in todo}

\* garbage_collector::collect, under the mutex
collect(res, sems, values) == Pass(Running(res, sems), DOMAIN sems, values)

(***************************************************************************)
(* History kept beside the program's state                                 *)
(***************************************************************************)
\* resources whose cleanup an operation invoked
Cleaned(st) == {st.ran[i].resource : i \in DOMAIN st.ran}

\* how often an operation invoked cleanup `id`
Runs(st, id) == Cardinality({i \in DOMAIN st.ran : st.ran[i].cleanup = id})

\* how often an operation invoked callback `id`
Calls(st, id) == Cardinality({i \in DOMAIN st.fired : st.fired[i].callback = id})

\* a thread that is not inside wait_collect can call an operation, and gets
\* the mutex when no thread owns it
CanLock == mutex = NoThread /\ \E t \in Threads : pc[t] = "idle"

\* a call that registers something is made while the bound allows
CanCall == CanLock /\ waits.calls < MaxCalls

\* The end of an operation that ran under the mutex and left the registries
\* as `st`.  cl, cb, sw, oe: the histories with what the operation registered.
\* polled: the operation was a collect() pass, which queried every tracked
\* semaphore.  returned: "alone" when the operation ends a wait_collect that no
\* other thread's call disturbed, "disturbed" when it ends another, else "no".
\* `last` keeps what the operation did: ran, fired, destroyed, ub as in Running,
\* polled and returned.
Commit(st, cl, cb, sw, oe, polled, returned) ==
    /\ resources' = st.resources
    /\ semaphore_dependencies' = st.sems
    /\ last' = [polled |-> polled, returned |-> returned, ran |-> st.ran,
                fired |-> st.fired, destroyed |-> st.destroyed, ub |-> st.ub]
    /\ cleanups' = [id \in DOMAIN cl |-> [cl[id] EXCEPT !.runs = @ + Runs(st, id)]]
    /\ callbacks' = [id \in DOMAIN cb |->
          LET c == cb[id]
              observed == polled /\ c.sem \in DOMAIN semaphore_dependencies
                          /\ counter[c.sem] >= c.value
          IN  [c EXCEPT !.runs = @ + Calls(st, id),
                        !.collected = @ \/ polled,
                        !.seen = @ \/ observed]]
    /\ semWaits' = {w \in sw : ~(polled /\ w.sem \in DOMAIN semaphore_dependencies
                                 /\ counter[w.sem] >= w.value)}
    /\ orderEdges' = {e \in oe : e.user \notin Cleaned(st)}
    /\ everDeleted' = everDeleted \cup Cleaned(st)
    /\ highest' = st.highest
    /\ UNCHANGED counter

\* A call by `caller` disturbs every other thread that is inside wait_collect;
\* a thread that returns from wait_collect is no longer disturbed.  counted:
\* the call is one that MaxCalls bounds.
Disturb(caller, counted) ==
    waits' = [calls |-> waits.calls + (IF counted THEN 1 ELSE 0),
              disturbed |-> {u \in Threads :
                               /\ pc'[u] # "idle"
                               /\ u \in waits.disturbed \/ (u # caller /\ pc[u] # "idle")}]

\* how thread t's wait_collect ends
Returned(t) == IF t \in waits.disturbed THEN "disturbed" ELSE "alone"

\* a step that leaves the registries and their history alone
Idle(returned) ==
    /\ last' = [polled |-> FALSE, returned |-> returned, ran |-> <<>>, fired |-> <<>>, destroyed |-> {}, ub |-> FALSE]
    /\ UNCHANGED <<resources, semaphore_dependencies, cleanups, callbacks, semWaits,
                   orderEdges, everDeleted, highest>>

(***************************************************************************)
(* The public operations                                                   *)
(***************************************************************************)
\* the collector with registries res and sems and nothing running; cl, sw, oe:
\* the closures, semaphore values and edges the registries wait for
InitWith(res, sems, cl, sw, oe) ==
    /\ resources = res
    /\ semaphore_dependencies = sems
    /\ mutex = NoThread
    /\ pc = [t \in Threads |-> "idle"]
    /\ counter = [s \in Semaphores |-> 0]
    /\ cleanups = cl
    /\ callbacks = <<>>
    /\ semWaits = sw
    /\ orderEdges = oe
    /\ everDeleted = {}
    /\ highest = [s \in Semaphores |-> -1]
    /\ waits = [calls |-> 0, disturbed |-> {}]
    /\ frame = [t \in Threads |-> NoFrame]
    /\ last = [polled |-> FALSE, returned |-> "no", ran |-> <<>>, fired |-> <<>>, destroyed |-> {}, ub |-> FALSE]

\* the collector after construction
Init == InitWith(<<>>, <<>>, <<>>, {}, {})

\* the first statement of release, were it to keep a cleanup already stored
SetCleanupOnce(res, resource, id) ==
    LET m == Materialize(res, resource, dependency_info)
    IN  IF m[resource].cleanup # NoCleanup THEN m ELSE [m EXCEPT ![resource].cleanup = id]

\* the first statement of release: resources[resource].cleanup = std::move(cleanup)
SetCleanup(res, resource, id) ==
    [Materialize(res, resource, dependency_info) EXCEPT ![resource].cleanup = id]

\* release(void* resource, std::function<void()>&& cleanup), with a new closure
release(resource) ==
    /\ CanCall
    /\ LET id == Len(cleanups) + 1
           set == SetCleanup(resources, resource, id)
           st == check_delete(Running(set, semaphore_dependencies), resource)
       IN  Commit(st, Append(cleanups, [resource |-> resource, runs |-> 0]),
                  callbacks, semWaits, orderEdges, FALSE, "no")
    /\ UNCHANGED <<mutex, pc, frame>>
    /\ Disturb(NoThread, TRUE)

\* release(VkSemaphore sem)
release_semaphore(sem) ==
    /\ CanCall
    /\ LET m == Materialize(semaphore_dependencies, sem, semaphore_info)
           st == Running(resources, [m EXCEPT ![sem].should_destroy = TRUE])
       IN  Commit(st, cleanups, callbacks, semWaits, orderEdges,
                  FALSE, "no")
    /\ UNCHANGED <<mutex, pc, frame>>
    /\ Disturb(NoThread, TRUE)

\* the loop of depend_many, were it to leave dependency_count alone
CountUpForgotten(res, used, i) == res

RECURSIVE CountUp(_, _, _)
\* the loop of depend_many: resources[used_resources[i]].dependency_count++
CountUp(res, used, i) ==
    IF i > Len(used) THEN res
    ELSE LET m == Materialize(res, used[i], dependency_info)
         IN  CountUp([m EXCEPT ![used[i]].dependency_count = Increment(@)], used, i + 1)

\* the first two statements of depend_many: dependents.insert(dependents.end(), ...)
Appended(res, used, user) ==
    [Materialize(res, user, dependency_info) EXCEPT ![user].dependents = @ \o used]

\* the registry after depend_many(used_resources, used_resource_count, user_resource)
Depended(res, used, user) == CountUp(Appended(res, used, user), used, 1)

\* depend_many(void** used_resources, size_t used_resource_count, void* user_resource)
depend_many(used, user) ==
    /\ CanCall
    /\ LET st == Running(Depended(resources, used, user), semaphore_dependencies)
           declared == {[used |-> used[i], user |-> user] : i \in DOMAIN used}
           ordered == IF user \in everDeleted THEN {}
                      ELSE {e \in declared : e.used \notin everDeleted}
       IN  Commit(st, cleanups, callbacks, semWaits,
                  orderEdges \cup ordered, FALSE, "no")
    /\ UNCHANGED <<mutex, pc, frame>>
    /\ Disturb(NoThread, TRUE)

\* depend(void* used_resource, void* user_resource)
depend(used_resource, user_resource) == depend_many(<<used_resource>>, user_resource)

\* semaphore_dependencies[timeline].triggers.push(t)
Pushed(sems, timeline, t) ==
    [Materialize(sems, timeline, semaphore_info) EXCEPT ![timeline].triggers = Push(@, t)]

\* depend(void* used_resource, VkSemaphore timeline, uint64_t value)
depend_semaphore(used_resource, timeline, value) ==
    /\ CanCall
    /\ LET res == CountUp(resources, <<used_resource>>, 1)
           pushed == Pushed(semaphore_dependencies, timeline,
                            trigger(value, used_resource, NoCallback))
       IN  Commit(Running(res, pushed), cleanups, callbacks,
                  semWaits \cup {[used |-> used_resource, sem |-> timeline, value |-> value]},
                  orderEdges, FALSE, "no")
    /\ UNCHANGED <<mutex, pc, frame>>
    /\ Disturb(NoThread, TRUE)

\* add_trigger(VkSemaphore timeline, uint64_t value, std::function<void()>&& callback),
\* with a new closure
add_trigger(timeline, value) ==
    /\ CanCall
    /\ LET id == Len(callbacks) + 1
           pushed == Pushed(semaphore_dependencies, timeline, trigger(value, nullptr, id))
       IN  Commit(Running(resources, pushed), cleanups,
                  Append(callbacks, [sem |-> timeline, value |-> value,
                                     reached |-> counter[timeline] >= value,
                                     collected |-> FALSE, seen |-> FALSE, runs |-> 0]),
                  semWaits, orderEdges, FALSE, "no")
    /\ UNCHANGED <<mutex, pc, frame>>
    /\ Disturb(NoThread, TRUE)

\* collect(): the lock is held from the first statement to the return
Collect ==
    /\ CanLock
    /\ \E st \in collect(resources, semaphore_dependencies, counter) :
          Commit(st, cleanups, callbacks, semWaits, orderEdges, TRUE, "no")
    /\ UNCHANGED <<mutex, pc, frame>>
    /\ Disturb(NoThread, FALSE)

\* wait_collect(), first statement: collect()
wait_collect_first(t) ==
    /\ pc[t] = "idle"
    /\ mutex = NoThread
    /\ \E st \in collect(resources, semaphore_dependencies, counter) :
          Commit(st, cleanups, callbacks, semWaits, orderEdges, TRUE, "no")
    /\ pc' = [pc EXCEPT ![t] = "locking"]
    /\ UNCHANGED <<mutex, frame>>
    /\ Disturb(t, FALSE)

\* wait_collect(), second and third statements: the lock is taken and the sizes
\* of the registries are tested.  When either is not 0 the thread goes on to
\* vkDeviceWaitIdle, owning the mutex; otherwise it returns, releasing it.
wait_collect_lock(t) ==
    /\ pc[t] = "locking"
    /\ mutex = NoThread
    /\ IF DOMAIN resources # {} \/ DOMAIN semaphore_dependencies # {}
       THEN mutex' = t /\ pc' = [pc EXCEPT ![t] = "waiting"] /\ Idle("no")
       ELSE mutex' = NoThread /\ pc' = [pc EXCEPT ![t] = "idle"] /\ Idle(Returned(t))
    /\ UNCHANGED <<counter, frame>>
    /\ Disturb(t, FALSE)

\* wait_collect(): vkDeviceWaitIdle(dev) returns, then lk.unlock()
wait_collect_idle(t) ==
    /\ pc[t] = "waiting"
    /\ mutex' = NoThread
    /\ pc' = [pc EXCEPT ![t] = "collecting"]
    /\ Idle("no")
    /\ UNCHANGED <<counter, frame>>
    /\ Disturb(t, FALSE)

\* wait_collect(), last statement: collect(), then the return
wait_collect_second(t) ==
    /\ pc[t] = "collecting"
    /\ mutex = NoThread
    /\ \E st \in collect(resources, semaphore_dependencies, counter) :
          Commit(st, cleanups, callbacks, semWaits, orderEdges, TRUE, Returned(t))
    /\ pc' = [pc EXCEPT ![t] = "idle"]
    /\ UNCHANGED <<mutex, frame>>
    /\ Disturb(t, FALSE)

\* the device signals a timeline semaphore: its value grows
signal(sem) ==
    /\ counter[sem] < MaxValue
    /\ counter' = [counter EXCEPT ![sem] = @ + 1]
    /\ Idle("no")
    /\ UNCHANGED <<mutex, pc, waits, frame>>

\* the arrays depend_many is called with
UsedArrays(R) == UNION {[1..n -> R] : n \in 0..MaxUsed}

\* a call of a public operation other than wait_collect, on resources R and
\* semaphores S, or a signal of the device
Call(R, S) ==
    \/ \E r \in R : release(r)
    \/ \E s \in S : release_semaphore(s)
    \/ \E used \in UsedArrays(R), user \in R : depend_many(used, user)
    \/ \E used \in R, user \in R : depend(used, user)
    \/ \E used \in R, s \in S, v \in Values : depend_semaphore(used, s, v)
    \/ \E s \in S, v \in Values : add_trigger(s, v)
    \/ Collect
    \/ \E s \in S : signal(s)

\* a step of a thread inside wait_collect
Wait ==
    \/ \E t \in Threads : wait_collect_first(t)
    \/ \E t \in Threads : wait_collect_lock(t)
    \/ \E t \in Threads : wait_collect_idle(t)
    \/ \E t \in Threads : wait_collect_second(t)

\* the collector under release, depend, depend_many, add_trigger and collect
Next == Call(Resources, Semaphores)
Spec == Init /\ [][Next]_vars

\* the collector with threads that also call wait_collect
\* they start after depend(A, S, 1): a resource waits for the device
InitWait ==
    InitWith(CountUp(<<>>, <<"A">>, 1),
             Pushed(<<>>, "S", trigger(1, "A", NoCallback)),
             <<>>,
             {[used |-> "A", sem |-> "S", value |-> 1]},
             {})
NextWait == Call(Resources, WaitSemaphores) \/ Wait
SpecWait == InitWait /\ [][NextWait]_vars

\* the collector of the chain test: after depend(A, B), depend(B, C),
\* release(A, cleanup) and release(B, cleanup) on three new resources
InitChain ==
    InitWith(SetCleanup(SetCleanup(Depended(Depended(<<>>, <<"A">>, "B"), <<"B">>, "C"),
                                   "A", 1), "B", 2),
             <<>>,
             <<[resource |-> "A", runs |-> 0], [resource |-> "B", runs |-> 0]>>,
             {},
             {[used |-> "A", user |-> "B"], [used |-> "B", user |-> "C"]})
NextChain == Call(ChainResources, ChainSemaphores)
SpecChain == InitChain /\ [][NextChain]_vars

\* the collector after depend(A, B) and depend(B, A): each of A and B waits for
\* the deletion of the other
InitCycle ==
    InitWith(Depended(Depended(<<>>, <<"A">>, "B"), <<"B">>, "A"), <<>>, <<>>, {}, {})
NextCycle == Call(Resources, WaitSemaphores) \/ Wait
SpecCycle == InitCycle /\ [][NextCycle]_vars

(***************************************************************************)
(* Closures that call back into the collector                              *)
(***************************************************************************)
\* the lock, were the mutex a std::recursive_mutex
lockRecursive(t) == IF mutex \in {NoThread, t} THEN {"owned"} ELSE {"waits"}

\* the lock, were it to let every thread in
lockFree(t) == {"owned"}

\* std::unique_lock<std::mutex> lk(mutex), the first statement of every public
\* operation, executed by thread t: the outcomes.  A thread that owns a
\* std::mutex and locks it again has undefined behaviour: the implementations
\* either block it forever or throw std::system_error
\* (resource_deadlock_would_occur).
lock(t) ==
    IF mutex = NoThread THEN {"owned"}
    ELSE IF mutex = t THEN {"blocked", "thrown"}
    ELSE {"waits"}

\* the operation of the last step invoked no closure
InvokesNothing ==
    /\ last'.ran = <<>>
    /\ \A k \in DOMAIN last'.fired : last'.fired[k].callback = NoCallback

\* a step that invokes a closure and leaves the registries as res and sems:
\* the thread owns the mutex and is inside the closure
Invoke(t, res, sems, cl, cb) ==
    /\ mutex' = t
    /\ pc' = [pc EXCEPT ![t] = "closure"]
    /\ resources' = res
    /\ semaphore_dependencies' = sems
    /\ cleanups' = cl
    /\ callbacks' = cb
    /\ last' = [polled |-> FALSE, returned |-> "no", ran |-> <<>>, fired |-> <<>>,
                destroyed |-> {}, ub |-> FALSE]
    /\ UNCHANGED <<counter, semWaits, orderEdges, everDeleted, highest, frame>>

\* release(resource, cleanup) by thread t on a resource that waits for nothing:
\* check_delete invokes the closure, which calls a public operation
release_cleanup(t, resource) ==
    /\ CanCall
    /\ pc[t] = "idle"
    /\ "owned" \in lock(t)
    /\ LET id == Len(cleanups) + 1
           set == SetCleanup(resources, resource, id)
       IN  /\ Eligible(set[resource])
           /\ Invoke(t, set, semaphore_dependencies,
                     Append(cleanups, [resource |-> resource, runs |-> 1]), callbacks)
    /\ Disturb(t, TRUE)

\* collect() by thread t when the trigger on top of the heap of the one tracked
\* semaphore is ready and has a callback: collect invokes the closure, which
\* calls a public operation
collect_callback(t) ==
    /\ pc[t] = "idle"
    /\ "owned" \in lock(t)
    /\ \E sem \in DOMAIN semaphore_dependencies :
          \E top \in Top(semaphore_dependencies[sem].triggers) :
             /\ DOMAIN semaphore_dependencies = {sem}
             /\ Ready(top, counter[sem])
             /\ top.callback # NoCallback
             /\ callbacks[top.callback].runs < MaxCalls
             /\ Invoke(t, resources, semaphore_dependencies, cleanups,
                       [callbacks EXCEPT ![top.callback].runs = @ + 1])
    /\ Disturb(t, FALSE)

\* the operations a closure can call; each begins by locking the mutex
PublicOperations ==
    {"release", "release_semaphore", "depend", "depend_many", "depend_semaphore",
     "add_trigger", "collect", "wait_collect"}

\* the closure of thread t calls the public operation op, whose first statement
\* locks the mutex that t owns.  When the lock blocks, t stays blocked; when it
\* throws, the exception leaves the closure and the operation that invoked it,
\* whose unique_lock unlocks the mutex; "reentered" stands for an operation
\* that got the lock.
relock(t, op) ==
    /\ pc[t] = "closure"
    /\ \E outcome \in lock(t) :
          /\ pc' = [pc EXCEPT ![t] = CASE outcome = "blocked" -> "blocked"
                                       [] outcome = "thrown" -> "idle"
                                       [] outcome = "owned" -> "reentered"
                                       [] OTHER -> "closure"]
          /\ mutex' = IF outcome = "thrown" THEN NoThread ELSE mutex
    /\ Idle("no")
    /\ UNCHANGED <<counter, frame>>
    /\ Disturb(t, FALSE)

\* the collector when every closure passed to it calls a public operation
NextReentrant ==
    \/ \E r \in Resources : release(r) /\ InvokesNothing
    \/ \E s \in WaitSemaphores : release_semaphore(s)
    \/ \E used \in UsedArrays(Resources), user \in Resources : depend_many(used, user)
    \/ \E s \in WaitSemaphores, v \in Values : add_trigger(s, v)
    \/ Collect /\ InvokesNothing
    \/ \E s \in WaitSemaphores : signal(s)
    \/ \E t \in Threads, r \in Resources : release_cleanup(t, r)
    \/ \E t \in Threads : collect_callback(t)
    \/ \E t \in Threads, op \in PublicOperations : relock(t, op)
SpecReentrant == Init /\ [][NextReentrant]_vars

(***************************************************************************)
(* The operations statement by statement, called by several threads        *)
(***************************************************************************)
\* the frame of a call of operation op: its arguments, the closure `id` it
\* passes, the registries as they were when it got the lock (before) and the
\* semaphore values its collect() pass read (values)
Frame(op, resource, used, user, sem, value, id) ==
    [op |-> op, resource |-> resource, used |-> used, user |-> user, sem |-> sem,
     value |-> value, id |-> id,
     before |-> [resources |-> resources, sems |-> semaphore_dependencies],
     values |-> counter]

\* thread t calls an operation and gets the lock; f: its frame; cl, cb, sw, oe:
\* the histories with what the call registers; counted: MaxCalls bounds it
Begin(t, f, cl, cb, sw, oe, counted) ==
    /\ pc[t] = "idle"
    /\ counted => waits.calls < MaxCalls
    /\ "owned" \in lock(t)
    /\ mutex' = t
    /\ pc' = [pc EXCEPT ![t] = "locked"]
    /\ frame' = [frame EXCEPT ![t] = f]
    /\ cleanups' = cl
    /\ callbacks' = cb
    /\ semWaits' = sw
    /\ orderEdges' = oe
    /\ waits' = [waits EXCEPT !.calls = @ + (IF counted THEN 1 ELSE 0)]
    /\ last' = [polled |-> FALSE, returned |-> "no", ran |-> <<>>, fired |-> <<>>,
                destroyed |-> {}, ub |-> FALSE]
    /\ UNCHANGED <<resources, semaphore_dependencies, counter, everDeleted, highest>>

\* release(resource, cleanup) is called with a new closure
call_release(t, resource) ==
    Begin(t, Frame("release", resource, <<>>, nullptr, nullptr, 0, Len(cleanups) + 1),
          Append(cleanups, [resource |-> resource, runs |-> 0]),
          callbacks, semWaits, orderEdges, TRUE)

\* release(VkSemaphore sem) is called
call_release_semaphore(t, sem) ==
    Begin(t, Frame("release_semaphore", nullptr, <<>>, nullptr, sem, 0, 0),
          cleanups, callbacks, semWaits, orderEdges, TRUE)

\* depend_many(used_resources, used_resource_count, user_resource) is called
call_depend_many(t, used, user) ==
    LET declared == {[used |-> used[i], user |-> user] : i \in DOMAIN used}
        ordered == IF user \in everDeleted THEN {}
                   ELSE {e \in declared : e.used \notin everDeleted}
    IN  Begin(t, Frame("depend_many", nullptr, used, user, nullptr, 0, 0),
              cleanups, callbacks, semWaits, orderEdges \cup ordered, TRUE)

\* depend(used_resource, user_resource) is called
call_depend(t, used_resource, user_resource) ==
    call_depend_many(t, <<used_resource>>, user_resource)

\* depend(used_resource, timeline, value) is called
call_depend_semaphore(t, used_resource, timeline, value) ==
    Begin(t, Frame("depend_semaphore", used_resource, <<>>, nullptr, timeline, value, 0),
          cleanups, callbacks,
          semWaits \cup {[used |-> used_resource, sem |-> timeline, value |-> value]},
          orderEdges, TRUE)

\* add_trigger(timeline, value, callback) is called with a new closure
call_add_trigger(t, timeline, value) ==
    Begin(t, Frame("add_trigger", nullptr, <<>>, nullptr, timeline, value, Len(callbacks) + 1),
          cleanups,
          Append(callbacks, [sem |-> timeline, value |-> value,
                             reached |-> counter[timeline] >= value,
                             collected |-> FALSE, seen |-> FALSE, runs |-> 0]),
          semWaits, orderEdges, TRUE)

\* collect() is called
call_collect(t) ==
    Begin(t, Frame("collect", nullptr, <<>>, nullptr, nullptr, 0, 0),
          cleanups, callbacks, semWaits, orderEdges, FALSE)

\* the operations whose body has two statements; collect's for loop and the
\* single statements of the others run as one
TwoStatements == {"release", "depend_many", "depend_semaphore"}

\* what the first statement after the lock makes of the registries
First(f) ==
    CASE f.op = "release" ->
            {Running(SetCleanup(resources, f.resource, f.id), semaphore_dependencies)}
      [] f.op = "release_semaphore" ->
            {Running(resources,
                     [Materialize(semaphore_dependencies, f.sem, semaphore_info)
                         EXCEPT ![f.sem].should_destroy = TRUE])}
      [] f.op = "depend_many" ->
            {Running(Appended(resources, f.used, f.user), semaphore_dependencies)}
      [] f.op = "depend_semaphore" ->
            {Running(CountUp(resources, <<f.resource>>, 1), semaphore_dependencies)}
      [] f.op = "add_trigger" ->
            {Running(resources,
                     Pushed(semaphore_dependencies, f.sem, trigger(f.value, nullptr, f.id)))}
      [] f.op = "collect" -> collect(resources, semaphore_dependencies, counter)

\* what the second statement makes of them.  check_delete's resources.find
\* returns end() when the record is gone, and check_delete dereferences it.
Second(f) ==
    CASE f.op = "release" ->
            IF f.resource \in DOMAIN resources
            THEN check_delete(Running(resources, semaphore_dependencies), f.resource)
            ELSE [Running(resources, semaphore_dependencies) EXCEPT !.ub = TRUE]
      [] f.op = "depend_many" ->
            Running(CountUp(resources, f.used, 1), semaphore_dependencies)
      [] f.op = "depend_semaphore" ->
            Running(resources,
                    Pushed(semaphore_dependencies, f.sem,
                           trigger(f.value, f.resource, NoCallback)))

\* thread t executes the first statement of its operation
statement_first(t) ==
    /\ pc[t] = "locked"
    /\ \E st \in First(frame[t]) :
          Commit(st, cleanups, callbacks, semWaits, orderEdges, frame[t].op = "collect", "no")
    /\ pc' = [pc EXCEPT ![t] = IF frame[t].op \in TwoStatements THEN "half" ELSE "done"]
    /\ frame' = [frame EXCEPT ![t].values = counter]
    /\ UNCHANGED <<mutex, waits>>

\* thread t executes the second statement of its operation
statement_second(t) ==
    /\ pc[t] = "half"
    /\ Commit(Second(frame[t]), cleanups, callbacks, semWaits, orderEdges, FALSE, "no")
    /\ pc' = [pc EXCEPT ![t] = "done"]
    /\ UNCHANGED <<mutex, waits, frame>>

\* thread t returns: ~unique_lock unlocks the mutex
unlock(t) ==
    /\ pc[t] = "done"
    /\ mutex' = NoThread
    /\ pc' = [pc EXCEPT ![t] = "idle"]
    /\ frame' = [frame EXCEPT ![t] = NoFrame]
    /\ Idle("no")
    /\ UNCHANGED <<counter, waits>>

\* the registries the operation of frame f leaves when it runs alone on the
\* registries f.before
Serial(f) ==
    LET res == f.before.resources
        sems == f.before.sems
        ends == CASE f.op = "release" ->
                        {check_delete(Running(SetCleanup(res, f.resource, f.id), sems),
                                      f.resource)}
                  [] f.op = "release_semaphore" ->
                        {Running(res, [Materialize(sems, f.sem, semaphore_info)
                                          EXCEPT ![f.sem].should_destroy = TRUE])}
                  [] f.op = "depend_many" -> {Running(Depended(res, f.used, f.user), sems)}
                  [] f.op = "depend_semaphore" ->
                        {Running(CountUp(res, <<f.resource>>, 1),
                                 Pushed(sems, f.sem, trigger(f.value, f.resource, NoCallback)))}
                  [] f.op = "add_trigger" ->
                        {Running(res, Pushed(sems, f.sem, trigger(f.value, nullptr, f.id)))}
                  [] f.op = "collect" -> collect(res, sems, f.values)
    IN  {[resources |-> st.resources, sems |-> st.sems] : st \in ends}

\* the collector under threads that call every operation but wait_collect
NextThreads ==
    \/ \E t \in Threads, r \in Resources : call_release(t, r)
    \/ \E t \in Threads, s \in WaitSemaphores : call_release_semaphore(t, s)
    \/ \E t \in Threads, used \in UsedArrays(Resources), user \in Resources :
          call_depend_many(t, used, user)
    \/ \E t \in Threads, used \in Resources, user \in Resources : call_depend(t, used, user)
    \/ \E t \in Threads, used \in Resources, s \in WaitSemaphores, v \in Values :
          call_depend_semaphore(t, used, s, v)
    \/ \E t \in Threads, s \in WaitSemaphores, v \in Values : call_add_trigger(t, s, v)
    \/ \E t \in Threads : call_collect(t)
    \/ \E t \in Threads : statement_first(t)
    \/ \E t \in Threads : statement_second(t)
    \/ \E t \in Threads : unlock(t)
    \/ \E s \in WaitSemaphores : signal(s)
SpecThreads == Init /\ [][NextThreads]_vars

\* the caller calls collect() again and again, and the device goes on
\* signalling every timeline semaphore
Fairness == WF_vars(Collect) /\ \A s \in WaitSemaphores : WF_vars(signal(s))
\* the calls of the liveness scenario: every operation with single resources
NextLive ==
    \/ \E r \in Resources : release(r)
    \/ \E s \in WaitSemaphores : release_semaphore(s)
    \/ \E used \in Resources, user \in Resources : depend(used, user)
    \/ \E used \in Resources, s \in WaitSemaphores, v \in Values : depend_semaphore(used, s, v)
    \/ \E s \in WaitSemaphores, v \in Values : add_trigger(s, v)
    \/ Collect
    \/ \E s \in WaitSemaphores : signal(s)
SpecLive == Init /\ [][NextLive]_vars /\ Fairness

(***************************************************************************)
(* Claims                                                                  *)
(***************************************************************************)
\* C1: a cleanup is never invoked while its resource's dependency_count is
\* greater than 0: every cleanup an operation invoked found the count at 0.
C1_CleanupOnlyAtZero ==
    \A i \in DOMAIN last.ran : last.ran[i].dependency_count = 0

\* a collect() fired the trigger a released resource was waiting for, and
\* invoked its cleanup
C1_Witness ==
    /\ last.polled
    /\ \E i \in DOMAIN last.ran, k \in DOMAIN last.fired :
          last.fired[k].dependent = last.ran[i].resource

\* C2: a cleanup registered by one release call is invoked at most once; once
\* it has run no record holds it any more, and the record of a resource whose
\* cleanup an operation invoked is gone when the operation returns.
C2_CleanupAtMostOnce ==
    /\ \A id \in DOMAIN cleanups :
          /\ cleanups[id].runs <= 1
          /\ cleanups[id].runs = 1 =>
                \A r \in DOMAIN resources : resources[r].cleanup # id
    /\ \A i \in DOMAIN last.ran : last.ran[i].resource \notin DOMAIN resources

\* a cleanup has run, its resource has been mentioned again since, and a
\* later collect() has passed over the new record
C2_Witness ==
    /\ last.polled
    /\ \E id \in DOMAIN cleanups :
          /\ cleanups[id].runs = 1
          /\ cleanups[id].resource \in DOMAIN resources

C4_NotBeforeValue ==
    \A w \in semWaits : \A i \in DOMAIN last.ran : last.ran[i].resource # w.used

\* a collect() observed a value above 0 that a released resource was waiting
\* for, and invoked its cleanup
C4_Witness ==
    /\ last.polled
    /\ \E i \in DOMAIN last.ran, k \in DOMAIN last.fired :
          /\ last.fired[k].dependent = last.ran[i].resource
          /\ last.fired[k].value > 0

\* C5: a callback registered by add_trigger is invoked exactly once, by the
\* first collect() after its registration that observes the counter at or
\* above its value, and by no collect() before or after; that is the very next
\* collect() when the value was already reached at registration.
C5_CallbackOnce ==
    \A id \in DOMAIN callbacks :
       /\ callbacks[id].runs = (IF callbacks[id].seen THEN 1 ELSE 0)
       /\ callbacks[id].reached /\ callbacks[id].collected => callbacks[id].runs = 1

\* a callback whose value was not reached at registration has run, and a
\* later collect() fired nothing
C5_Witness ==
    /\ last.polled
    /\ last.fired = <<>>
    /\ \E id \in DOMAIN callbacks : callbacks[id].runs = 1 /\ ~callbacks[id].reached

\* C6 as stated: of any two fired triggers of one counter the earlier has the
\* smaller or equal target value: no trigger fires with a target value below
\* one that fired before it on the same counter.
C6_AnyTwoFired ==
    \A i \in DOMAIN last.fired : last.fired[i].after <= last.fired[i].value

\* C6 amended: a trigger that fires has the smallest target value of the
\* triggers then pending on its counter, so two triggers that were pending
\* together fire in non-decreasing order of target value.
C6_FiresSmallestPending ==
    \A i \in DOMAIN last.fired : last.fired[i].value = last.fired[i].floor

\* one collect() fired two triggers of one counter with different target values
C6_Witness ==
    \E i \in DOMAIN last.fired, j \in DOMAIN last.fired :
       /\ i < j
       /\ last.fired[i].sem = last.fired[j].sem
       /\ last.fired[i].value < last.fired[j].value

\* C7 as stated: wait_collect never owns the mutex while it is blocked in
\* vkDeviceWaitIdle.
C7_UnlockedWhileWaiting ==
    \A t \in Threads : pc[t] = "waiting" => mutex # t

\* every pending trigger's target value has been reached
AllReached ==
    \A s \in DOMAIN semaphore_dependencies :
       \A t \in BagToSet(semaphore_dependencies[s].triggers) : t.value <= counter[s]

\* every resource of the registry has been released
AllReleased == \A r \in DOMAIN resources : resources[r].cleanup # NoCleanup

\* every semaphore of the registry has been released
AllSemaphoresReleased ==
    \A s \in DOMAIN semaphore_dependencies : semaphore_dependencies[s].should_destroy

RECURSIVE Blockers(_, _)
\* the resources whose deletion one of `waiting` waits for, over at most n edges
Blockers(waiting, n) ==
    LET direct == {u \in DOMAIN resources :
                      \E i \in DOMAIN resources[u].dependents :
                         resources[u].dependents[i] \in waiting}
    IN  IF n = 0 THEN {} ELSE direct \cup Blockers(direct, n - 1)

\* no resource waits for its own deletion
Acyclic ==
    \A r \in DOMAIN resources : r \notin Blockers({r}, Cardinality(DOMAIN resources))

\* both registries are empty after the step
EmptyAfter == resources' = <<>> /\ semaphore_dependencies' = <<>>

\* the step ends a wait_collect of thread t that no other call disturbed
ReturnsAlone(t) == pc[t] # "idle" /\ pc'[t] = "idle" /\ t \notin waits.disturbed

\* C8 as stated: a wait_collect with no concurrent call, at whose last
\* collect() every pending trigger's target value is reached, returns with
\* both registries empty.
C8_EmptyOnReturn ==
    [][\A t \in Threads : ReturnsAlone(t) /\ AllReached => EmptyAfter]_vars

\* C8 amended: it does when, besides, every resource and every semaphore still
\* in the registries has been released and no resource waits for itself.
C8_EmptyOnReturnOfReleased ==
    [][\A t \in Threads :
          ReturnsAlone(t) /\ AllReached /\ AllReleased /\ AllSemaphoresReleased /\ Acyclic
             => EmptyAfter]_vars

\* an undisturbed wait_collect has returned: its last collect() fired a
\* trigger, deleted the resource that waited for it and destroyed the
\* semaphore, and both registries are empty
C8_Witness ==
    /\ last.returned = "alone"
    /\ last.fired # <<>>
    /\ last.ran # <<>>
    /\ last.destroyed # {}
    /\ resources = <<>>
    /\ semaphore_dependencies = <<>>

\* C9: a semaphore is destroyed, and its record removed, only by a collect()
\* pass on a record with should_destroy set whose triggers are all ready (so
\* that the pass leaves the heap empty); release(VkSemaphore) destroys nothing,
\* and a record that is not marked or keeps a trigger stays.
C9_DestroyOnlyDrainedAndReleased ==
    [][\A s \in Semaphores :
          LET tracked == s \in DOMAIN semaphore_dependencies
              drained == \A t \in BagToSet(semaphore_dependencies[s].triggers) :
                            t.value <= counter[s]
          IN  /\ (s \in last'.destroyed) <=> (tracked /\ s \notin DOMAIN semaphore_dependencies')
              /\ s \in last'.destroyed =>
                    last'.polled /\ semaphore_dependencies[s].should_destroy /\ drained
              /\ tracked /\ (~semaphore_dependencies[s].should_destroy \/ ~drained) =>
                    s \in DOMAIN semaphore_dependencies']_vars

\* a collect() popped the triggers of a released semaphore and destroyed it
C9_Witness ==
    /\ last.polled
    /\ \E k \in DOMAIN last.fired : last.fired[k].sem \in last.destroyed

\* the chain test's precondition: A waits for B, B waits for C, A and B are
\* released and wait for nothing else
ChainReady ==
    /\ {"A", "B", "C"} \subseteq DOMAIN resources
    /\ resources["A"].dependency_count = 1 /\ resources["A"].cleanup # NoCleanup
    /\ resources["A"].dependents = <<>>
    /\ resources["B"].dependency_count = 1 /\ resources["B"].cleanup # NoCleanup
    /\ resources["B"].dependents = <<"A">>
    /\ resources["C"].dependents = <<"B">>

\* the step is release(C, cleanup), and C waits for nothing
ReleasesC ==
    /\ resources["C"].dependency_count = 0
    /\ Len(cleanups') = Len(cleanups) + 1
    /\ cleanups'[Len(cleanups')].resource = "C"

\* the step is a collect() that fires the one trigger the released C waits for
FiresLastTriggerOfC ==
    /\ last'.polled
    /\ resources["C"].dependency_count = 1 /\ resources["C"].cleanup # NoCleanup
    /\ \E s \in DOMAIN semaphore_dependencies :
          \E t \in BagToSet(semaphore_dependencies[s].triggers) :
             t.dependent = "C" /\ t.value <= counter[s]

\* C10: with depend(A,B), depend(B,C) and cleanups on A and B, the operation
\* that makes C eligible invokes the cleanups of C, B and A, once each and in
\* that order, and leaves none of the three records.
C10_ChainCascade ==
    [][ChainReady /\ (ReleasesC \/ FiresLastTriggerOfC) =>
          /\ [i \in DOMAIN last'.ran |-> last'.ran[i].resource] = <<"C", "B", "A">>
          /\ last'.ran[2].cleanup = resources["B"].cleanup
          /\ last'.ran[3].cleanup = resources["A"].cleanup
          /\ \A i \in 1..3 : cleanups'[last'.ran[i].cleanup].runs = 1
          /\ DOMAIN resources' \cap {"A", "B", "C"} = {}]_vars

\* release(C, cleanup) has cascaded through the chain
C10_Witness ==
    /\ ~last.polled
    /\ [i \in DOMAIN last.ran |-> last.ran[i].resource] = <<"C", "B", "A">>

\* the closure the last release(r, cleanup) passed has been invoked, for
\* every resource r that was released
LastCleanupsRan ==
    \A id \in DOMAIN cleanups :
       (\A later \in DOMAIN cleanups :
           cleanups[later].resource = cleanups[id].resource => later <= id)
          => cleanups[id].runs = 1

\* C11: when collect() is called again and again while every semaphore reaches
\* the values waited for, the registry cannot stay for ever in states where
\* every resource is released and none waits for itself, and yet a record is
\* left or the cleanup of a released resource has not been invoked: again and
\* again, either a resource is unreleased or in a cycle, or every record is
\* removed and every cleanup has run.
C11_EventuallyCleaned ==
    []<>(~(AllReleased /\ Acyclic) \/ (resources = <<>> /\ LastCleanupsRan))

\* a collect() has fired a trigger and invoked the cleanup of the released
\* resource that waited for it; no record is left
C11_Witness ==
    /\ last.polled
    /\ \E k \in DOMAIN last.fired :
          last.fired[k].dependent \in {last.ran[i].resource : i \in DOMAIN last.ran}
    /\ resources = <<>>
    /\ LastCleanupsRan

\* C12: after depend(A, B) and depend(B, A), whatever is called next, the
\* records of A and B stay with a dependency_count above 0 that has not
\* wrapped, no cleanup passed for A or B is ever invoked, and no operation
\* uses an erased element.
C12_CycleLeaks ==
    /\ \A r \in {"A", "B"} :
          /\ r \in DOMAIN resources
          /\ resources[r].dependency_count > 0
          /\ resources[r].dependency_count < SIZE_MAX
          /\ r \notin everDeleted
    /\ \A id \in DOMAIN cleanups : cleanups[id].runs = 0
    /\ ~last.ub

\* A and B are both released, and a wait_collect() that followed has returned
C12_Witness ==
    /\ last.returned = "alone"
    /\ last.polled
    /\ \A r \in {"A", "B"} : r \in DOMAIN resources /\ resources[r].cleanup # NoCleanup

\* the step is release(r, cleanup): a closure for r is added to the history
Releases(r) ==
    /\ Len(cleanups') = Len(cleanups) + 1
    /\ cleanups'[Len(cleanups')].resource = r

\* C13: a release(r, cleanup) on a resource that already has a cleanup stores
\* the new closure in its place; from that step on the earlier closure is never
\* invoked, and a cleanup that is invoked for r is the closure of the latest
\* release of r.
C13_SecondReleaseReplaces ==
    [][/\ \A r \in DOMAIN resources :
             Releases(r) /\ resources[r].cleanup # NoCleanup =>
                /\ r \in DOMAIN resources'
                /\ resources'[r].cleanup = Len(cleanups')
                /\ resources'[r].cleanup # resources[r].cleanup
       /\ \A id \in DOMAIN cleanups :
             (\E later \in DOMAIN cleanups' :
                 later > id /\ cleanups'[later].resource = cleanups[id].resource)
                => cleanups'[id].runs = cleanups[id].runs
       /\ \A k \in DOMAIN last'.ran :
             \A id \in DOMAIN cleanups' :
                cleanups'[id].resource = last'.ran[k].resource => id <= last'.ran[k].cleanup
      ]_vars

\* a resource was released twice while it waited; it has been deleted since:
\* the second closure ran, the first did not
C13_Witness ==
    /\ Len(cleanups) = 2
    /\ cleanups[1].resource = cleanups[2].resource
    /\ cleanups[1].runs = 0
    /\ cleanups[2].runs = 1

C15_Serialized ==
    [][/\ \A t \in Threads : pc'[t] # "idle" => mutex' = t
       /\ (resources' # resources \/ semaphore_dependencies' # semaphore_dependencies)
             => mutex # NoThread /\ pc[mutex] \in {"locked", "half"} /\ mutex' = mutex
       /\ \A t \in Threads :
             pc[t] = "done" /\ pc'[t] = "idle" =>
                [resources |-> resources, sems |-> semaphore_dependencies] \in Serial(frame[t])
      ]_vars

\* a thread is about to return from a release(resource, cleanup) that found
\* records of earlier calls and invoked the cleanup under the lock, while the
\* other thread is outside
C15_Witness ==
    \E t \in Threads :
       /\ pc[t] = "done"
       /\ mutex = t
       /\ frame[t].op = "release"
       /\ frame[t].before.resources # <<>>
       /\ last.ran # <<>>

\* C16: between operations no record has dependency_count 0 together with a
\* cleanup: the operation that stored the cleanup or lowered the count has
\* deleted the resource before it returned.
C16_NoEligibleLeft ==
    \A r \in DOMAIN resources : ~Eligible(resources[r])

\* a collect() lowered the count of a released resource to 0 by firing its
\* trigger, invoked its cleanup and removed its record
C16_Witness ==
    /\ last.polled
    /\ \E k \in DOMAIN last.fired, i \in DOMAIN last.ran :
          /\ last.fired[k].dependent = last.ran[i].resource
          /\ last.ran[i].resource \notin DOMAIN resources

\* resource r is the dependent of a trigger that is still in a heap
AwaitsTrigger(r) ==
    \E s \in DOMAIN semaphore_dependencies :
       \E t \in BagToSet(semaphore_dependencies[s].triggers) : t.dependent = r

\* C17 as stated: every record has a dependency_count above 0, or a cleanup
\* that has not run, or is the dependent of a pending trigger.
C17_RecordHasReason ==
    \A r \in DOMAIN resources :
       \/ resources[r].dependency_count > 0
       \/ resources[r].cleanup # NoCleanup
       \/ AwaitsTrigger(r)

\* C17 amended: a record either has no cleanup (the resource was named by a
\* depend call and has not been released; it stays, even with count 0 and no
\* trigger), or it has a cleanup and a dependency_count above 0, and then a
\* record that lists it among its dependents or a pending trigger exists.
C17_ReleasedRecordIsAwaited ==
    \A r \in DOMAIN resources :
       resources[r].cleanup # NoCleanup =>
          /\ resources[r].dependency_count > 0
          /\ Blockers({r}, 1) # {} \/ AwaitsTrigger(r)

\* a released resource waits for the deletion of its user, whose record has
\* count 0, no cleanup and no trigger
C17_Witness ==
    \E r \in DOMAIN resources, u \in DOMAIN resources :
       /\ resources[r].cleanup # NoCleanup
       /\ u \in Blockers({r}, 1)
       /\ resources[u].dependency_count = 0
       /\ resources[u].cleanup = NoCleanup
       /\ ~AwaitsTrigger(u)

RECURSIVE EdgeCount(_, _)
\* occurrences of r in the dependents lists of the records `users`
EdgeCount(users, r) ==
    IF users = {} THEN 0
    ELSE LET u == CHOOSE x \in users : TRUE
         IN  Cardinality({i \in DOMAIN resources[u].dependents :
                             resources[u].dependents[i] = r})
             + EdgeCount(users \ {u}, r)

RECURSIVE TriggerCount(_, _)
\* pending triggers with dependent r among `pending`, pairs of a semaphore and
\* a trigger of its heap
TriggerCount(pending, r) ==
    IF pending = {} THEN 0
    ELSE LET p == CHOOSE x \in pending : TRUE
         IN  (IF p[2].dependent = r
              THEN CopiesIn(p[2], semaphore_dependencies[p[1]].triggers) ELSE 0)
             + TriggerCount(pending \ {p}, r)

\* the edges and triggers resource r waits for
Unresolved(r) ==
    EdgeCount(DOMAIN resources, r)
    + TriggerCount(UNION {{<<s, t>> : t \in BagToSet(semaphore_dependencies[s].triggers)} :
                             s \in DOMAIN semaphore_dependencies}, r)

\* C18: between operations the dependency_count of every record is the number
\* of its occurrences in the dependents lists of the records plus the number
\* of pending triggers whose dependent it is (so it has not wrapped below 0),
\* and a resource without a record occurs in neither.
C18_CountIsUnresolved ==
    \A r \in Resources :
       Unresolved(r) = IF r \in DOMAIN resources THEN resources[r].dependency_count ELSE 0

\* a collect() fired one of two triggers a resource waited for: its count is 1
C18_Witness ==
    /\ last.polled
    /\ \E k \in DOMAIN last.fired :
          LET r == last.fired[k].dependent
          IN  /\ r \in DOMAIN resources
              /\ resources[r].dependency_count = 1
              /\ AwaitsTrigger(r)

\* the collect() pass that ended as st invoked nothing, destroyed nothing and
\* left the registries as they are
Nothing(st) ==
    /\ st.ran = <<>>
    /\ st.fired = <<>>
    /\ st.destroyed = {}
    /\ ~st.ub
    /\ st.resources = resources
    /\ st.sems = semaphore_dependencies

\* C19: a collect() on empty registries, and a collect() that follows a
\* collect() with nothing in between and the same semaphore values, invokes no
\* callback and no cleanup, destroys no semaphore and leaves both registries
\* as they were.
C19_CollectIdempotent ==
    (last.polled \/ (resources = <<>> /\ semaphore_dependencies = <<>>))
       => \A st \in collect(resources, semaphore_dependencies, counter) : Nothing(st)

\* a collect() has just fired a trigger and left another, not yet reached, in
\* the heap
C19_Witness ==
    /\ last.polled
    /\ last.fired # <<>>
    /\ \E s \in DOMAIN semaphore_dependencies :
          \E t \in BagToSet(semaphore_dependencies[s].triggers) : t.value > counter[s]

\* the dependency_count of r in the registry res, 0 without a record
CountIn(res, r) == IF r \in DOMAIN res THEN res[r].dependency_count ELSE 0

\* occurrences of r in the array used
Occurrences(used, r) == Cardinality({i \in DOMAIN used : used[i] = r})

\* C20: an operation that names a resource r which was deleted and has no
\* record uses no erased element and starts from a default-constructed record.
\* After depend, depend_many or depend(used, counter, value) the record of r
\* has no cleanup, a dependency_count equal to the edges and triggers that
\* name r, and as dependents only the array this call passed, each entry of
\* which had its count raised by this call.  release(r, cleanup) finds count 0
\* and no dependents: it invokes the new closure, nothing else, and leaves no
\* record.  No closure passed for r before is invoked.
C20_FreshAfterDeletion ==
    [][\A r \in Resources :
          r \in everDeleted /\ r \notin DOMAIN resources
          /\ (r \in DOMAIN resources' \/ Releases(r))
          => /\ ~last'.ub
             /\ \A id \in DOMAIN cleanups :
                   cleanups[id].resource = r => cleanups'[id].runs = cleanups[id].runs
             /\ IF Releases(r)
                THEN /\ r \notin DOMAIN resources'
                     /\ last'.ran = <<[resource |-> r, cleanup |-> Len(cleanups'),
                                       dependency_count |-> 0]>>
                     /\ \A u \in Resources : CountIn(resources', u) = CountIn(resources, u)
                ELSE /\ resources'[r].cleanup = NoCleanup
                     /\ resources'[r].dependency_count = Unresolved(r)'
                     /\ \/ resources'[r].dependents = <<>>
                        \/ \A u \in Resources :
                              Occurrences(resources'[r].dependents, u)
                                 = CountIn(resources', u) - CountIn(resources, u)
      ]_vars

\* a resource that was deleted has a record again: a later depend call named
\* it, and it waits for that dependency
C20_Witness ==
    \E r \in everDeleted :
       /\ r \in DOMAIN resources
       /\ resources[r].dependency_count > 0
       /\ resources[r].cleanup = NoCleanup
       /\ \E id \in DOMAIN cleanups : cleanups[id].resource = r /\ cleanups[id].runs = 1

====
